---- MODULE Spec2Model ----
(***************************************************************************)
(* Model of the two request handlers of the rental property investment     *)
(* calculator:                                                             *)
(*   src/anthropic_lambda/anthropic_function.py  (analysis handler)        *)
(*   src/lambda/lambda_function.py               (record handler)          *)
(*                                                                         *)
(* Text is modelled at lexeme granularity: a Python str is a sequence of   *)
(* tokens, each an indivisible lexeme (a punctuation character, a quoted   *)
(* string literal, a number, a JSON literal, a commentary word, a run of   *)
(* whitespace, a ``` fence).  The str operations the code uses (in, split, *)
(* strip, find, rfind, slicing) act on these sequences, and json.loads /   *)
(* json.dumps are a parser and a printer over them.                        *)
(***************************************************************************)
EXTENDS Integers, Sequences, FiniteSets, TLC

(***************************************************************************)
(* Lexemes                                                                 *)
(***************************************************************************)
P(c) == [p |-> c]          \* punctuation / whitespace / fence
Q(s) == [q |-> s]          \* a double-quoted string literal
D(n) == [d |-> n]          \* a number literal
L(x) == [l |-> x]          \* null, true, false
W(x) == [w |-> x]          \* a bare word of commentary (never valid JSON)

LBRACE == P("{")
RBRACE == P("}")
LBRACK == P("[")
RBRACK == P("]")
COLON  == P(":")
COMMA  == P(",")
WS     == P(" ")
TICKS  == P("fence")     \* three backticks

IsQ(tok) == DOMAIN tok = {"q"}
IsD(tok) == DOMAIN tok = {"d"}
IsL(tok) == DOMAIN tok = {"l"}

(***************************************************************************)
(* Python values produced by json.loads (and None)                         *)
(***************************************************************************)
Null    == [t |-> "null"]
Bool(b) == [t |-> "bool", b |-> b]
Num(n)  == [t |-> "num", n |-> n]
Str(s)  == [t |-> "str", s |-> s]
Arr(a)  == [t |-> "arr", a |-> a]
Obj(o)  == [t |-> "obj", o |-> o]
EmptyObj == Obj(<<>>)

IsObj(v) == v.t = "obj"
HasKey(v, k) == IsObj(v) /\ k \in DOMAIN v.o

(***************************************************************************)
(* json.loads                                                              *)
(***************************************************************************)
RECURSIVE SkipWs(_, _)
SkipWs(s, i) == IF i <= Len(s) /\ s[i] = WS THEN SkipWs(s, i + 1) ELSE i

Fail == [ok |-> FALSE]
Ok(v, next) == [ok |-> TRUE, v |-> v, next |-> next]

LitVal(tok) ==
    CASE tok.l = "null" -> Null
      [] tok.l = "true" -> Bool(TRUE)
      [] tok.l = "false" -> Bool(FALSE)

RECURSIVE PValue(_, _)
RECURSIVE PMembers(_, _, _)
RECURSIVE PElements(_, _, _)

\* after the opening brace and whitespace
PObject(s, k) ==
    IF k <= Len(s) /\ s[k] = RBRACE THEN Ok(EmptyObj, k + 1) ELSE PMembers(s, k, <<>>)

\* after the opening bracket and whitespace
PArray(s, k) ==
    IF k <= Len(s) /\ s[k] = RBRACK THEN Ok(Arr(<<>>), k + 1) ELSE PElements(s, k, <<>>)

\* the value whose first lexeme is tok, at position j
PToken(s, j, tok) ==
    CASE IsL(tok) -> Ok(LitVal(tok), j + 1)
      [] IsD(tok) -> Ok(Num(tok.d), j + 1)
      [] IsQ(tok) -> Ok(Str(tok.q), j + 1)
      [] tok = LBRACE -> PObject(s, SkipWs(s, j + 1))
      [] tok = LBRACK -> PArray(s, SkipWs(s, j + 1))
      [] OTHER -> Fail

PValueAt(s, j) == IF j > Len(s) THEN Fail ELSE PToken(s, j, s[j])

\* one value starting at or after position i (leading whitespace skipped)
PValue(s, i) == PValueAt(s, SkipWs(s, i))

\* after a member, at position e: the closing brace, or a comma and the next key
PMemberEnd(s, e, acc) ==
    IF e > Len(s) THEN Fail
    ELSE IF s[e] = RBRACE THEN Ok(Obj(acc), e + 1)
    ELSE IF s[e] = COMMA THEN PMembers(s, SkipWs(s, e + 1), acc)
    ELSE Fail

\* the member with key k and parsed value r; a repeated key keeps the last value
PMember(s, k, r, acc) ==
    IF ~r.ok THEN Fail ELSE PMemberEnd(s, SkipWs(s, r.next), (k :> r.v) @@ acc)

\* the colon at position c after the key at position i
PColon(s, i, c, acc) ==
    IF c > Len(s) \/ s[c] # COLON THEN Fail
    ELSE PMember(s, s[i].q, PValue(s, c + 1), acc)

\* "key": value pairs up to the closing brace
PMembers(s, i, acc) ==
    IF i > Len(s) \/ ~IsQ(s[i]) THEN Fail ELSE PColon(s, i, SkipWs(s, i + 1), acc)

PElementEnd(s, e, acc) ==
    IF e > Len(s) THEN Fail
    ELSE IF s[e] = RBRACK THEN Ok(Arr(acc), e + 1)
    ELSE IF s[e] = COMMA THEN PElements(s, e + 1, acc)
    ELSE Fail

PElement(s, r, acc) ==
    IF ~r.ok THEN Fail ELSE PElementEnd(s, SkipWs(s, r.next), Append(acc, r.v))

PElements(s, i, acc) == PElement(s, PValue(s, i), acc)

\* the whole text is one value, whitespace around it allowed
WholeText(s, r) ==
    IF r.ok /\ SkipWs(s, r.next) > Len(s) THEN [ok |-> TRUE, v |-> r.v] ELSE Fail

\* json.loads(text): [ok |-> TRUE, v |-> value] or [ok |-> FALSE] (JSONDecodeError)
json_loads(s) == WholeText(s, PValue(s, 1))

(***************************************************************************)
(* json.dumps (default separators ", " and ": ")                           *)
(***************************************************************************)
RECURSIVE json_dumps(_)
RECURSIVE DumpMembers(_, _)
RECURSIVE DumpElements(_, _)

DumpMembers(o, keys) ==
    IF keys = {} THEN <<>>
    ELSE LET k    == CHOOSE x \in keys : TRUE
             rest == keys \ {k}
         IN  <<Q(k), COLON, WS>> \o json_dumps(o[k])
             \o (IF rest = {} THEN <<>> ELSE <<COMMA, WS>> \o DumpMembers(o, rest))

DumpElements(a, i) ==
    IF i > Len(a) THEN <<>>
    ELSE json_dumps(a[i])
         \o (IF i = Len(a) THEN <<>> ELSE <<COMMA, WS>> \o DumpElements(a, i + 1))

json_dumps(v) ==
    CASE v.t = "null" -> <<L("null")>>
      [] v.t = "bool" -> <<L(IF v.b THEN "true" ELSE "false")>>
      [] v.t = "num"  -> <<D(v.n)>>
      [] v.t = "str"  -> <<Q(v.s)>>
      [] v.t = "arr"  -> <<LBRACK>> \o DumpElements(v.a, 1) \o <<RBRACK>>
      [] v.t = "obj"  -> <<LBRACE>> \o DumpMembers(v.o, DOMAIN v.o) \o <<RBRACE>>

(***************************************************************************)
(* Python str operations                                                   *)
(***************************************************************************)
\* text[a:b] with 0-based a and exclusive b
Slice(text, a, b) == SubSeq(text, a + 1, b)

StartsAt(text, pat, i) ==
    /\ i + Len(pat) - 1 <= Len(text)
    /\ \A k \in 1..Len(pat) : text[i + k - 1] = pat[k]

Hits(text, pat) == {i \in 1..Len(text) : StartsAt(text, pat, i)}
Least(S)    == CHOOSE i \in S : \A j \in S : i <= j
Greatest(S) == CHOOSE i \in S : \A j \in S : i >= j

\* text.find(pat): 0-based index of the first occurrence, or -1
Find(text, pat) == IF Hits(text, pat) = {} THEN -1 ELSE Least(Hits(text, pat)) - 1

\* text.rfind(pat): 0-based index of the last occurrence, or -1
RFind(text, pat) == IF Hits(text, pat) = {} THEN -1 ELSE Greatest(Hits(text, pat)) - 1

\* pat in text
Contains(text, pat) == Find(text, pat) # -1

\* text.split(sep): the list of parts
RECURSIVE Split(_, _)
SplitAt(text, sep, f) ==
    IF f = -1 THEN <<text>>
    ELSE <<Slice(text, 0, f)>> \o Split(Slice(text, f + Len(sep), Len(text)), sep)
Split(text, sep) == SplitAt(text, sep, Find(text, sep))

\* text.strip()
RECURSIVE LStrip(_)
LStrip(text) == IF text # <<>> /\ Head(text) = WS THEN LStrip(Tail(text)) ELSE text
RECURSIVE RStrip(_)
RStrip(text) ==
    IF text # <<>> /\ text[Len(text)] = WS THEN RStrip(SubSeq(text, 1, Len(text) - 1))
    ELSE text
Strip(text) == RStrip(LStrip(text))

(***************************************************************************)
(* Response Normalizer                                                     *)
(***************************************************************************)
Unavailable == Str("Analysis could not be completed - please try again.")
Category(label) == Obj(("score" :> Num(50)) @@ ("label" :> Str(label)) @@ ("summary" :> Unavailable))
Projection == Obj(("totalEquity" :> Num(0)) @@ ("cashOnCashReturn" :> Num(0)))

get_fallback_response ==
    Obj(  ("scorecard" :> Obj(
               ("overallScore" :> Num(50))
            @@ ("verdict" :> Str("FAIR"))
            @@ ("categories" :> Obj(
                    ("cashFlow" :> Category("Fair"))
                 @@ ("yield" :> Category("Fair"))
                 @@ ("risk" :> Category("Moderate"))
                 @@ ("growth" :> Category("Fair"))
                 @@ ("location" :> Category("Fair"))))
            @@ ("strengths" :> Arr(<<Str("Data received successfully"),
                                     Str("Calculator metrics computed")>>))
            @@ ("weaknesses" :> Arr(<<Str("AI analysis could not be generated"),
                                      Str("Please retry the analysis")>>))))
       @@ ("locationInsights" :> Obj(
               ("neighborhoodProfile" :>
                    Str("Location analysis could not be completed. Please try again."))
            @@ ("rentalDemand" :> Obj(("level" :> Str("Unknown")) @@ ("trend" :> Str("Unknown"))
                                      @@ ("details" :> Str("Analysis unavailable"))))
            @@ ("marketTrends" :> Obj(("priceGrowth" :> Str("Unknown"))
                                      @@ ("rentalGrowth" :> Str("Unknown"))))
            @@ ("growthProjection" :> Obj(("fiveYear" :> Str("Unknown"))
                                          @@ ("tenYear" :> Str("Unknown"))))
            @@ ("risks" :> Arr(<<Str("Analysis incomplete - please retry")>>))))
       @@ ("recommendations" :> Obj(
               ("actions" :> Arr(<<Obj(
                      ("priority" :> Num(1))
                   @@ ("title" :> Str("Retry Analysis"))
                   @@ ("description" :>
                         Str("The AI analysis did not complete successfully. Please try again."))
                   @@ ("impact" :> Str("High")))>>))
            @@ ("financialProjections" :> Obj(
                    ("fiveYear" :> Projection)
                 @@ ("tenYear" :> Projection)
                 @@ ("twentyYear" :> Projection))))))

JsonFence == <<TICKS, W("json")>>     \* the marker that opens a json code block
Fence     == <<TICKS>>

\* StripFences keeping the part before the fence instead of the part after it
StripFences_Before(text) ==
    IF Contains(text, JsonFence) THEN Split(Split(text, JsonFence)[1], Fence)[1]
    ELSE IF Contains(text, Fence) THEN Split(Split(text, Fence)[1], Fence)[1]
    ELSE text

\* lines 291-295: the text the second and third attempts work on
StripFences(text) ==
    IF Contains(text, JsonFence) THEN Split(Split(text, JsonFence)[2], Fence)[1]
    ELSE IF Contains(text, Fence) THEN Split(Split(text, Fence)[2], Fence)[1]
    ELSE text

\* lines 304-308: json.loads of the span, when the guard of line 306 lets it run
BraceSpan(text, start, finish) ==
    IF start # -1 /\ finish > start THEN json_loads(Slice(text, start, finish)) ELSE Fail

\* BraceScan ending the span at the first closing brace instead of the last
BraceScan_FirstClose(text) ==
    BraceSpan(text, Find(text, <<LBRACE>>), Find(text, <<RBRACE>>) + 1)

\* lines 303-310: the span from the first opening to the last closing brace
BraceScan(text) == BraceSpan(text, Find(text, <<LBRACE>>), RFind(text, <<RBRACE>>) + 1)

\* lines 312-314
ThirdAttempt(third) == IF third.ok THEN third.v ELSE get_fallback_response

\* lines 297-310
SecondAttempt(inner, second) ==
    IF second.ok THEN second.v ELSE ThirdAttempt(BraceScan(inner))

\* lines 291-314
AfterDirect(inner) == SecondAttempt(inner, json_loads(Strip(inner)))

\* lines 285-289
FirstAttempt(text, direct) == IF direct.ok THEN direct.v ELSE AfterDirect(StripFences(text))

extract_json(text) == FirstAttempt(text, json_loads(text))

(***************************************************************************)
(* Prompt Builder                                                          *)
(***************************************************************************)
Raise(kind) == [ok |-> FALSE, error |-> kind]

\* d.get(k, default) on a dict d
Get(d, k, default) == IF k \in DOMAIN d.o THEN d.o[k] ELSE default

\* Python truthiness of a decoded JSON value
Truthy(v) ==
    CASE v.t = "null" -> FALSE
      [] v.t = "bool" -> v.b
      [] v.t = "num"  -> v.n # 0
      [] v.t = "str"  -> v.s # ""
      [] v.t = "arr"  -> v.a # <<>>
      [] v.t = "obj"  -> DOMAIN v.o # {}

\* values the "," and ".2f" format specifications accept
IsNumber(v) == v.t \in {"num", "bool"}

NotSpecified == Str("Not specified")

\* 'Yes' if pd.get(k) else 'No' if pd.get(k) is False else 'Not specified'
YesNo(pd, k) ==
    LET x == Get(pd, k, Null) IN
    IF Truthy(x) THEN Str("Yes") ELSE IF x = Bool(FALSE) THEN Str("No") ELSE NotSpecified

PlainDetails == {"propertyName", "complexName", "bedrooms", "bathrooms", "squareMeters",
                 "floorLevel", "parkingBays", "buildingAge", "loadSheddingReady",
                 "accessControlType", "furnished"}
YesNoDetails == {"fibreAvailable", "waterBackup", "security24hr", "cctvCoverage",
                 "reserveFundAdequate", "specialLevyHistory", "shortTermAllowed",
                 "petFriendly"}
LocationFields == {"suburb", "city", "province", "country"}

\* required fields, in the order the template reads them: <<group, field, formatted with ",">>
RequiredFields ==
    << <<"propertyData", "price", TRUE>>, <<"propertyData", "deposit", TRUE>>,
       <<"propertyData", "loanAmount", TRUE>>, <<"propertyData", "interestRate", FALSE>>,
       <<"propertyData", "loanTermYears", FALSE>>,
       <<"incomeData", "monthlyRent", TRUE>>, <<"incomeData", "annualRentIncrease", FALSE>>,
       <<"incomeData", "vacancyMonths", FALSE>>,
       <<"expenseData", "monthlyRates", FALSE>>, <<"expenseData", "monthlyLevies", FALSE>>,
       <<"expenseData", "monthlyInsurance", FALSE>>, <<"expenseData", "monthlyWaterElec", FALSE>>,
       <<"expenseData", "monthlyWifi", FALSE>>, <<"expenseData", "monthlySecurity", FALSE>>,
       <<"expenseData", "maintenancePercent", FALSE>>,
       <<"expenseData", "commissionPercent", FALSE>>,
       <<"expenseData", "cleaningPercent", FALSE>>,
       <<"expenseData", "annualExpenseIncrease", FALSE>> >>

\* metrics rendered with ".2f", default 0
NumericMetrics == {"monthlyBondPayment", "year1MonthlyCashflow", "year1YearlyCashflow",
                   "requiredDepositForBreakEven", "grossYield", "netYield"}

ProjectionYears == 20
SummaryYears == {1, 5, 10, 20}

\* the error a numeric format specification raises on a value that is no number
FormatError(v) == IF v.t = "str" THEN "ValueError" ELSE "TypeError"

\* the error data[group][field] (with its format) raises, or "" when it renders
RequiredError(data, req) ==
    IF req[1] \notin DOMAIN data.o THEN "KeyError"
    ELSE LET g == data.o[req[1]] IN
         IF ~IsObj(g) THEN "TypeError"
         ELSE IF req[2] \notin DOMAIN g.o THEN "KeyError"
         ELSE IF req[3] /\ ~IsNumber(g.o[req[2]]) THEN FormatError(g.o[req[2]])
         ELSE ""

\* lines 138-168: the optional property details section, one rendered value per label
DetailsSection(pd) ==
    [k \in PlainDetails \cup YesNoDetails |->
        IF k \in YesNoDetails THEN YesNo(pd, k) ELSE Get(pd, k, NotSpecified)]

\* lines 171-179
SummaryError(data, projections) ==
    IF "currency" \notin DOMAIN data.o THEN "KeyError"
    ELSE IF \E y \in SummaryYears : ~IsObj(projections.a[y]) THEN "AttributeError"
    ELSE IF \E y \in SummaryYears : ~IsNumber(Get(projections.a[y], "yearlyCashflow", Num(0)))
         THEN FormatError(Get(projections.a[CHOOSE y \in SummaryYears :
                 ~IsNumber(Get(projections.a[y], "yearlyCashflow", Num(0)))],
                 "yearlyCashflow", Num(0)))
    ELSE ""

\* build_analysis_prompt(data): [ok |-> TRUE, text |-> the rendered fields] or the error raised
build_analysis_prompt(data) ==
    LET pd      == Get(data, "propertyDetails", EmptyObj)
        loc     == Get(data, "location", EmptyObj)
        metrics == Get(data, "calculatedMetrics", EmptyObj)
    IN
    IF Truthy(pd) /\ ~IsObj(pd) THEN Raise("AttributeError")
    ELSE IF ~IsObj(metrics) THEN Raise("AttributeError")
    ELSE
    LET projections == Get(metrics, "yearlyProjections", Arr(<<>>))
        withSummary == projections.t = "arr" /\ Len(projections.a) >= ProjectionYears
        bad         == {i \in 1..Len(RequiredFields) : RequiredError(data, RequiredFields[i]) # ""}
        early       == {i \in bad : RequiredFields[i][1] = "propertyData"}
        First(S)    == CHOOSE i \in S : \A j \in S : i <= j
    IN
    IF projections.t \in {"null", "bool", "num"} THEN Raise("TypeError")
    ELSE IF withSummary /\ SummaryError(data, projections) # ""
         THEN Raise(SummaryError(data, projections))
    ELSE IF "currency" \notin DOMAIN data.o THEN Raise("KeyError")
    ELSE IF early # {} THEN Raise(RequiredError(data, RequiredFields[First(early)]))
    ELSE IF ~IsObj(loc) THEN Raise("AttributeError")
    ELSE IF bad # {} THEN Raise(RequiredError(data, RequiredFields[First(bad)]))
    ELSE IF \E m \in NumericMetrics : ~IsNumber(Get(metrics, m, Num(0)))
         THEN Raise(FormatError(Get(metrics, CHOOSE m \in NumericMetrics :
                                                 ~IsNumber(Get(metrics, m, Num(0))), Num(0))))
    ELSE [ok |-> TRUE,
          text |-> [currency |-> data.o["currency"],
                    required |-> [i \in 1..Len(RequiredFields) |->
                                     data.o[RequiredFields[i][1]].o[RequiredFields[i][2]]],
                    details  |-> IF Truthy(pd) THEN DetailsSection(pd) ELSE <<>>,
                    location |-> [k \in LocationFields |->
                                     Get(loc, k, IF k = "country" THEN Str("South Africa")
                                                 ELSE NotSpecified)],
                    metrics  |-> [m \in NumericMetrics \cup {"breakEvenYear"} |->
                                     Get(metrics, m, IF m = "breakEvenYear" THEN Str("N/A")
                                                     ELSE Num(0))],
                    summary  |-> withSummary,
                    closing  |-> [suburb |-> Get(loc, "suburb", Str("the area")),
                                  city   |-> Get(loc, "city", Str("South Africa"))]]]

(***************************************************************************)
(* Inputs                                                                  *)
(***************************************************************************)
MaxPad == 2              \* lexemes of text around the document of a reply, in all
MaxInvocations == 2      \* record handler invocations explored
MaxTime == 1             \* latest wall-clock reading

Absent == [t |-> "absent"]                  \* a missing key, an unbound local
Text(x) == [t |-> "text", x |-> x]          \* a Python str holding the lexemes x

RECURSIVE SeqsUpTo(_, _)
SeqsUpTo(S, n) ==
    IF n = 0 THEN {<<>>}
    ELSE LET shorter == SeqsUpTo(S, n - 1) IN
         shorter \cup {Append(q, a) : q \in shorter, a \in S}

\* --- replies of the inference service --------------------------------------
SeqsOfLen(S, n) == {q \in SeqsUpTo(S, n) : Len(q) = n}

PadAlphabet == {W("Note"), W("json"), WS, LBRACE, RBRACE, TICKS}
\* the text before and the text after the document
PadPairs ==
    UNION {{<<a, b>> : a \in SeqsOfLen(PadAlphabet, i), b \in SeqsUpTo(PadAlphabet, MaxPad - i)} :
           i \in 0..MaxPad}

Scalars == {Null, Num(70), Str("scorecard"), Str("FAIR")}
NestedObjects ==
    {Obj("scorecard" :> Obj("overallScore" :> Num(70))),
     Obj(("scorecard" :> Num(70)) @@ ("verdict" :> Str("FAIR")))}
SampleObjects == NestedObjects \cup {EmptyObj, Obj("scorecard" :> Null)}
SampleValues == Scalars \cup SampleObjects \cup {Arr(<<Str("scorecard")>>)}

\* a reply cut short by the output limit
Truncated(text) == SubSeq(text, 1, Len(text) - 1)

Docs == {json_dumps(v) : v \in SampleValues}
        \cup {Truncated(json_dumps(v)) : v \in NestedObjects}
        \cup {<<>>}

Opens  == {<<>>, <<TICKS, WS>>, <<TICKS, W("json"), WS>>}
Closes == {<<>>, <<WS, TICKS>>}

\* what the model emitted: text, an optional opening fence, a document, an optional closing
\* fence, more text
Replies ==
    {[pre |-> pp[1], open |-> o, doc |-> d, close |-> c, post |-> pp[2]] :
        pp \in PadPairs, o \in Opens, d \in Docs, c \in Closes}
Join(r) == r.pre \o r.open \o r.doc \o r.close \o r.post

NoUsage == Absent
Usages == {NoUsage, Obj(("input_tokens" :> Num(3)) @@ ("output_tokens" :> Num(5)))}

\* processing times the handler may measure, in ms
Elapsed == {0, 12}

\* --- analysis requests -----------------------------------------------------
Group(fields) == Obj([k \in fields |-> Num(1)])
GroupFields(g) == {RequiredFields[i][2] : i \in {j \in 1..Len(RequiredFields) :
                                                     RequiredFields[j][1] = g}}
MinimalRequest ==
    Obj(  ("currency" :> Str("ZAR"))
       @@ ("propertyData" :> Group(GroupFields("propertyData")))
       @@ ("incomeData" :> Group(GroupFields("incomeData")))
       @@ ("expenseData" :> Group(GroupFields("expenseData"))))
With(obj, k, v) == Obj((k :> v) @@ obj.o)
Without(obj, k) == Obj([x \in DOMAIN obj.o \ {k} |-> obj.o[x]])

FullRequest ==
    With(With(With(With(MinimalRequest,
        "requestId", Str("req-1")),
        "propertyDetails", Obj(("bedrooms" :> Num(2)) @@ ("fibreAvailable" :> Bool(TRUE))
                               @@ ("petFriendly" :> Bool(FALSE)))),
        "location", Obj("suburb" :> Str("Sandton"))),
        "calculatedMetrics", Obj("grossYield" :> Num(8)))

\* every required field and a complete location, no property details
LocatedRequest ==
    With(MinimalRequest, "location",
         Obj(("suburb" :> Str("Sandton")) @@ ("city" :> Str("Johannesburg"))
             @@ ("province" :> Str("Gauteng")) @@ ("country" :> Str("South Africa"))))

AnalysisRequests ==
    {FullRequest, MinimalRequest, LocatedRequest,
     Without(FullRequest, "currency"),
     With(FullRequest, "propertyData", Without(FullRequest.o["propertyData"], "price")),
     With(FullRequest, "propertyData", Obj("price" :> Str("1,450,000")))}

\* --- record requests -------------------------------------------------------
InputFields == {"propertyPrice", "deposit", "initialRentalIncome", "annualRentIncrease",
                "vacancyMonths", "monthlyRates", "monthlyLevies", "monthlyInsurance",
                "maintenancePercent", "commissionPercent", "cleaningPercent",
                "monthlyWaterElec", "monthlyWifi", "monthlySecurity",
                "annualExpenseIncrease", "loanTerm"}
FullInputs == Obj([k \in InputFields |-> Num(1)])
RecordRequests ==
    {Obj("inputs" :> FullInputs),
     Obj("inputs" :> Obj("propertyPrice" :> Num(2))),
     Obj("inputs" :> Num(1)),
     EmptyObj}

\* --- events ----------------------------------------------------------------
\* an event is a dict that may lack the body key; a body is a str, a decoded value or None
\* (None is the decoded JSON null)
NoBody == Absent
Payloads == AnalysisRequests \cup RecordRequests
Bodies == {Text(json_dumps(v)) : v \in Payloads}        \* a JSON string
          \cup (Payloads \ {MinimalRequest, LocatedRequest})   \* already decoded
          \cup {Text(<<W("Note")>>), Text(<<D(1)>>), Text(<<LBRACK, RBRACK>>),
                Text(<<LBRACE>>), Null, Arr(<<>>), NoBody}
Events == [body : Bodies]

(***************************************************************************)
(* State                                                                   *)
(***************************************************************************)
VARIABLES
    fn,          \* the deployed function: "analysis" or "record"
    pc,          \* position of the running invocation
    event,       \* the event of the running invocation
    data,        \* analysis handler: the decoded body
    request_id,  \* analysis handler: data.get('requestId', 'unknown')
    prompt,      \* analysis handler: the rendered prompt
    reply,       \* what the inference service emitted, by parts
    ai_text,     \* analysis handler: response_body['content'][0]['text']
    usage,       \* analysis handler: response_body.get('usage')
    analysis,    \* analysis handler: the value extract_json returned
    item,        \* record handler: the item built for the store
    calls,       \* calls of the external collaborator made by the running invocation
    call_failed, \* whether such a call raised
    response,    \* what the invocation returned
    exception,   \* the exception that left the handler, "" when none did
    table,       \* the keyed store: id -> item
    issued,      \* identifiers uuid4 has produced
    invoked,     \* record handler invocations started
    successes    \* record handler invocations that returned 200

locals == <<event, data, request_id, prompt, reply, ai_text, usage, analysis, item,
            calls, call_failed, response, exception>>
store  == <<table, issued, successes>>
vars   == <<fn, pc, locals, store, invoked>>

model_id == "anthropic.claude-3-haiku-20240307-v1:0"
Ids   == 1..(MaxInvocations + 1)
Times == 0..MaxTime

Fresh ==
    /\ event = Absent /\ data = Absent /\ request_id = Absent /\ prompt = Absent
    /\ reply = Absent /\ ai_text = Absent /\ usage = Absent /\ analysis = Absent
    /\ item = Absent /\ calls = 0 /\ call_failed = FALSE /\ response = Absent
    /\ exception = ""

Init ==
    /\ fn \in {"analysis", "record"}
    /\ pc = "idle"
    /\ Fresh
    /\ table = <<>> /\ issued = {} /\ successes = 0 /\ invoked = 0

(***************************************************************************)
(* Analysis handler                                                        *)
(***************************************************************************)
AnalysisHeaders ==
    [ContentType |-> "application/json", AllowOrigin |-> "*",
     AllowHeaders |-> "Content-Type,Authorization"]

\* lines 113-126
AnalysisError(rid, kind) ==
    [statusCode |-> 500, headers |-> AnalysisHeaders,
     body |-> [success |-> FALSE, requestId |-> rid, error |-> kind,
               analysis |-> get_fallback_response]]

\* lines 89-109
AnalysisSuccess(rid, result, elapsed, used) ==
    [statusCode |-> 200, headers |-> AnalysisHeaders,
     body |-> [success |-> TRUE, requestId |-> rid, analysis |-> result,
               metadata |-> [modelUsed |-> model_id, processingTimeMs |-> elapsed,
                             tokensUsed |->
                                [input  |-> Get(used, "input_tokens", Num(0)),
                                 output |-> Get(used, "output_tokens", Num(0))]]]]

\* 'scorecard' in v: [ok |-> TRUE, v |-> BOOLEAN], or the TypeError of a value without
\* membership.  A str is searched for the substring; of the sample strings only
\* "scorecard" contains it.
PyIn(k, v) ==
    CASE v.t = "obj" -> [ok |-> TRUE, v |-> k \in DOMAIN v.o]
      [] v.t = "arr" -> [ok |-> TRUE, v |-> \E i \in 1..Len(v.a) : v.a[i] = Str(k)]
      [] v.t = "str" -> [ok |-> TRUE, v |-> v.s = k]
      [] OTHER -> Raise("TypeError")

AnalysisInvoke ==
    /\ fn = "analysis" /\ pc = "idle"
    /\ \E ev \in Events : event' = ev
    /\ pc' = "received"
    /\ UNCHANGED <<fn, data, request_id, prompt, reply, ai_text, usage, analysis, item,
                   calls, call_failed, response, exception, store, invoked>>

\* lines 29-35: the decoded body, or the error json.loads raises
ParsedBody(ev) ==
    IF ev.body.t = "text"
    THEN LET r == json_loads(ev.body.x) IN IF r.ok THEN r ELSE Raise("JSONDecodeError")
    ELSE [ok |-> TRUE, v |-> IF ev.body = NoBody THEN EmptyObj ELSE ev.body]

\* lines 29-37, outside the try block: an error here leaves the handler
ParseInput ==
    /\ fn = "analysis" /\ pc = "received"
    /\ LET r == ParsedBody(event) IN
       IF ~r.ok
       THEN /\ exception' = r.error /\ pc' = "raised"
            /\ UNCHANGED <<data, request_id>>
       ELSE IF ~IsObj(r.v)
       THEN /\ exception' = "AttributeError" /\ pc' = "raised"
            /\ data' = r.v /\ UNCHANGED request_id
       ELSE /\ data' = r.v
            /\ request_id' = Get(r.v, "requestId", Str("unknown"))
            /\ pc' = "parsed"
            /\ UNCHANGED exception
    /\ UNCHANGED <<fn, event, prompt, reply, ai_text, usage, analysis, item, calls,
                   call_failed, response, store, invoked>>

\* lines 39-42 and, when the builder raises, 111-126
BuildPrompt ==
    /\ fn = "analysis" /\ pc = "parsed"
    /\ LET r == build_analysis_prompt(data) IN
       IF r.ok
       THEN /\ prompt' = r.text /\ pc' = "prompted" /\ UNCHANGED response
       ELSE /\ response' = AnalysisError(request_id, r.error) /\ pc' = "done"
            /\ UNCHANGED prompt
    /\ UNCHANGED <<fn, event, data, request_id, reply, ai_text, usage, analysis, item,
                   calls, call_failed, exception, store, invoked>>

\* lines 45-56 raising (transport, authentication, quota), then 111-126
InvokeModelFails ==
    /\ fn = "analysis" /\ pc = "prompted"
    /\ calls' = calls + 1
    /\ call_failed' = TRUE
    /\ response' = AnalysisError(request_id, "ClientError")
    /\ pc' = "done"
    /\ UNCHANGED <<fn, event, data, request_id, prompt, reply, ai_text, usage, analysis,
                   item, exception, store, invoked>>

\* lines 45-62 with a response body that has no content, then 111-126
InvokeModelMalformed ==
    /\ fn = "analysis" /\ pc = "prompted"
    /\ calls' = calls + 1
    /\ response' = AnalysisError(request_id, "KeyError")
    /\ pc' = "done"
    /\ UNCHANGED <<fn, event, data, request_id, prompt, reply, ai_text, usage, analysis,
                   item, call_failed, exception, store, invoked>>

\* lines 45-66: the call, the reply text and its normalisation
InvokeModel ==
    /\ fn = "analysis" /\ pc = "prompted"
    /\ calls' = calls + 1
    /\ \E r \in Replies :
         /\ reply' = r
         /\ ai_text' = Join(r)
         /\ analysis' = extract_json(Join(r))
    /\ \E u \in Usages : usage' = u
    /\ pc' = "extracted"
    /\ UNCHANGED <<fn, event, data, request_id, prompt, item, call_failed, response,
                   exception, store, invoked>>

\* Validated with the membership test inverted
Validated_Inverted(result) ==
    LET has == PyIn("scorecard", result) IN
    IF ~has.ok THEN has
    ELSE [ok |-> TRUE, v |-> IF has.v THEN get_fallback_response ELSE result]

\* lines 68-71: the value placed in the response, or the error the membership test raises
Validated(result) ==
    LET has == PyIn("scorecard", result) IN
    IF ~has.ok THEN has
    ELSE [ok |-> TRUE, v |-> IF ~has.v THEN get_fallback_response ELSE result]

\* lines 68-109 and, when the membership test raises, 111-126
Respond ==
    /\ fn = "analysis" /\ pc = "extracted"
    /\ LET r == Validated(analysis) IN
       IF r.ok
       THEN /\ analysis' = r.v
            /\ \E elapsed \in Elapsed :
                 response' = AnalysisSuccess(request_id, r.v, elapsed,
                                             IF usage = NoUsage THEN EmptyObj ELSE usage)
       ELSE /\ response' = AnalysisError(request_id, r.error)
            /\ UNCHANGED analysis
    /\ pc' = "done"
    /\ UNCHANGED <<fn, event, data, request_id, prompt, reply, ai_text, usage, item,
                   calls, call_failed, exception, store, invoked>>

\* the invocation is over: its locals are gone
Return ==
    /\ pc \in {"done", "raised"}
    /\ pc' = "idle"
    /\ event' = Absent /\ data' = Absent /\ request_id' = Absent /\ prompt' = Absent
    /\ reply' = Absent /\ ai_text' = Absent /\ usage' = Absent /\ analysis' = Absent
    /\ item' = Absent /\ calls' = 0 /\ call_failed' = FALSE /\ response' = Absent
    /\ exception' = ""
    /\ UNCHANGED <<fn, store, invoked>>

(***************************************************************************)
(* Record handler                                                          *)
(***************************************************************************)
RecordHeaders ==
    [AllowOrigin |-> "*", AllowHeaders |-> "*", AllowMethods |-> "POST, OPTIONS",
     ContentType |-> "application/json"]

\* lines 72-82
RecordSuccess ==
    [isBase64Encoded |-> FALSE, statusCode |-> 200, headers |-> RecordHeaders,
     body |-> [message |-> "Success"]]

\* lines 83-97
RecordError(kind) ==
    [statusCode |-> 500, headers |-> RecordHeaders,
     body |-> [message |-> "Error storing analysis", error |-> kind]]

\* lines 21-25: body['inputs'] of json.loads(event['body']), or the error raised
RecordInputs(ev) ==
    IF ev.body = NoBody THEN Raise("KeyError")
    ELSE IF ev.body.t # "text" THEN Raise("TypeError")
    ELSE LET r == json_loads(ev.body.x) IN
         IF ~r.ok THEN Raise("JSONDecodeError")
         ELSE IF ~IsObj(r.v) THEN Raise("TypeError")
         ELSE IF "inputs" \notin DOMAIN r.v.o THEN Raise("KeyError")
         ELSE IF ~IsObj(r.v.o["inputs"]) THEN Raise("AttributeError")
         ELSE [ok |-> TRUE, v |-> r.v.o["inputs"]]

\* NewItem keyed by an input field instead of the generated identifier
NewItem_KeyedByPrice(inputs, id, now) ==
    ("id" :> Get(inputs, "propertyPrice", Null)) @@ ("createdAt" :> now)
    @@ [k \in InputFields |-> Get(inputs, k, Null)]

\* lines 26-67: the item, every input field read with inputs.get
NewItem(inputs, id, now) ==
    ("id" :> id) @@ ("createdAt" :> now) @@ [k \in InputFields |-> Get(inputs, k, Null)]

\* lines 44-45: uuid4 returns an identifier it has not returned before
uuid4 == Ids \ issued

RecordInvoke ==
    /\ fn = "record" /\ pc = "idle"
    /\ invoked < MaxInvocations
    /\ invoked' = invoked + 1
    /\ \E ev \in Events : event' = ev
    /\ pc' = "received"
    /\ UNCHANGED <<fn, data, request_id, prompt, reply, ai_text, usage, analysis, item,
                   calls, call_failed, response, exception, store>>

\* lines 16-67 and, when a step raises, 83-97
BuildItem ==
    /\ fn = "record" /\ pc = "received"
    /\ LET r == RecordInputs(event) IN
       IF r.ok
       THEN /\ \E id \in uuid4, now \in Times :
                 /\ item' = NewItem(r.v, id, now)
                 /\ issued' = issued \cup {id}
            /\ pc' = "built"
            /\ UNCHANGED response
       ELSE /\ response' = RecordError(r.error)
            /\ pc' = "done"
            /\ UNCHANGED <<item, issued>>
    /\ UNCHANGED <<fn, event, data, request_id, prompt, reply, ai_text, usage, analysis,
                   calls, call_failed, exception, table, successes, invoked>>

\* lines 69-82: put_item overwrites whatever the key holds
PutItem ==
    /\ fn = "record" /\ pc = "built"
    /\ calls' = calls + 1
    /\ table' = (item["id"] :> item) @@ table
    /\ response' = RecordSuccess
    /\ successes' = successes + 1
    /\ pc' = "done"
    /\ UNCHANGED <<fn, event, data, request_id, prompt, reply, ai_text, usage, analysis,
                   item, call_failed, exception, issued, invoked>>

\* PutItemFails with the write attempted again instead of the request failing
PutItemFails_Retry ==
    /\ fn = "record" /\ pc = "built"
    /\ calls' = calls + 1
    /\ call_failed' = TRUE
    /\ UNCHANGED <<fn, pc, event, data, request_id, prompt, reply, ai_text, usage,
                   analysis, item, response, exception, store, invoked>>

\* line 70 raising (throttling, validation, connectivity), then 83-97
PutItemFails ==
    /\ fn = "record" /\ pc = "built"
    /\ calls' = calls + 1
    /\ call_failed' = TRUE
    /\ response' = RecordError("ClientError")
    /\ pc' = "done"
    /\ UNCHANGED <<fn, event, data, request_id, prompt, reply, ai_text, usage, analysis,
                   item, exception, store, invoked>>

(***************************************************************************)
(* Specification                                                           *)
(***************************************************************************)
Next ==
    \/ AnalysisInvoke
    \/ ParseInput
    \/ BuildPrompt
    \/ InvokeModelFails
    \/ InvokeModelMalformed
    \/ InvokeModel
    \/ Respond
    \/ RecordInvoke
    \/ BuildItem
    \/ PutItem
    \/ PutItemFails
    \/ Return

Spec == Init /\ [][Next]_vars

(***************************************************************************)
(* Properties                                                              *)
(***************************************************************************)
Fallback == get_fallback_response
JsonOpen    == <<TICKS, W("json"), WS>>
GenericOpen == <<TICKS, WS>>
FenceClose  == <<WS, TICKS>>
Extracted == fn = "analysis" /\ pc = "extracted"
Answered  == fn = "analysis" /\ pc = "done"
ScorecardKeys == {"overallScore", "verdict", "categories", "strengths", "weaknesses"}

\* the fixed Analysis Result schema, as far as the claims state it
IsAnalysisResult(v) ==
    /\ IsObj(v)
    /\ {"scorecard", "locationInsights", "recommendations"} \subseteq DOMAIN v.o
    /\ IsObj(v.o["scorecard"])
    /\ ScorecardKeys \subseteq DOMAIN v.o["scorecard"].o

\* the event body carries payload p, as its JSON string or already decoded
Carries(ev, p) == ev.body = p \/ ev.body = Text(json_dumps(p))

\* C1: whatever text the model replied with, the value extract_json returns is an
\* object with a top-level scorecard key.
C1_NormalizerReturnsScorecardObject ==
    Extracted => HasKey(analysis, "scorecard")

\* C2: in every response of the analysis handler, 200 or 500, the analysis field is a
\* record of the fixed schema: the three groups, with scorecard an object carrying
\* overallScore, verdict, categories, strengths and weaknesses.
C2_AnalysisMatchesSchema ==
    Answered => IsAnalysisResult(response.body.analysis)

\* C3: no exception leaves the analysis handler: for every event it returns, and every
\* failure is an HTTP 500 whose body has success false, the requestId, an error string
\* and the fallback Analysis Result.
C3_NoExceptionEscapes ==
    fn = "analysis" =>
        /\ exception = ""
        /\ pc # "raised"
        /\ (pc = "done" /\ response.statusCode # 200) =>
               /\ response.statusCode = 500
               /\ response.body.success = FALSE
               /\ response.body.requestId = request_id
               /\ response.body.error # ""
               /\ response.body.analysis = Fallback

\* C4: both handlers accept the body in either form: the analysis handler decodes the
\* same request from the JSON string and from the decoded object, and the record
\* handler, given either form of a body with a valid inputs object, stores the item and
\* answers 200 Success unless the write itself failed.
C4_BothBodyFormsAccepted ==
    /\ \A p \in AnalysisRequests :
           (fn = "analysis" /\ pc \notin {"idle", "received"} /\ Carries(event, p))
               => data = p
    /\ \A p \in RecordRequests :
           (fn = "record" /\ pc = "done" /\ Carries(event, p) /\ ~call_failed
                /\ HasKey(p, "inputs") /\ IsObj(p.o["inputs"]))
               => /\ response = RecordSuccess
                  /\ item # Absent /\ item["id"] \in DOMAIN table

\* C5: when the reply is exactly the JSON encoding of an object J with a scorecard key,
\* extract_json returns J and the handler answers 200 with exactly J as the analysis.
C5_RoundTrip ==
    \A J \in SampleObjects :
        (fn = "analysis" /\ reply # Absent /\ HasKey(J, "scorecard")
             /\ ai_text = json_dumps(J)) =>
            /\ pc = "extracted" => analysis = J
            /\ pc = "done" => /\ response.statusCode = 200
                              /\ response.body.analysis = J
                              /\ response.body.success = TRUE

\* a reply that is exactly the encoding of an object with a scorecard key has been
\* answered
C5_Witness ==
    /\ Answered
    /\ reply # Absent
    /\ response.statusCode = 200
    /\ ai_text = json_dumps(Obj("scorecard" :> Obj("overallScore" :> Num(70))))
    /\ response.body.analysis = Obj("scorecard" :> Obj("overallScore" :> Num(70)))

\* C6: when the reply holds a code block opened by the first json fence marker, or, with
\* no json fence marker anywhere, by the first generic fence, and closed by the next
\* fence, and the block encloses the JSON object J, extract_json returns J whatever
\* text stands before and after the block.
C6_FenceStripping ==
    \A J \in SampleObjects :
        (/\ Extracted
         /\ reply.doc = json_dumps(J)
         /\ reply.close = FenceClose
         /\ \/ reply.open = JsonOpen /\ ~Contains(reply.pre, JsonFence)
            \/ /\ reply.open = GenericOpen
               /\ ~Contains(reply.pre, Fence)
               /\ ~Contains(ai_text, JsonFence))
        => analysis = J

\* a json block between commentary, one closing brace of it after the block, has been
\* extracted
C6_Witness ==
    /\ Extracted
    /\ reply.pre = <<W("Note")>> /\ reply.post = <<RBRACE>>
    /\ reply.open = JsonOpen /\ reply.close = FenceClose
    /\ reply.doc = json_dumps(Obj("scorecard" :> Obj("overallScore" :> Num(70))))
    /\ analysis = Obj("scorecard" :> Obj("overallScore" :> Num(70)))

\* text without any fence
Unfenced(r) ==
    /\ r.open = <<>> /\ r.close = <<>>
    /\ ~Contains(r.pre, Fence) /\ ~Contains(r.post, Fence)

\* text whose fence is opened before the document and never closed
OpenFenced(r) ==
    /\ r.close = <<>> /\ ~Contains(r.post, Fence)
    /\ \/ r.open = JsonOpen /\ ~Contains(r.pre, JsonFence)
       \/ r.open = GenericOpen /\ ~Contains(r.pre, Fence)

\* C7: when the direct and the fence-stripped parse fail, extract_json parses the span
\* from the first opening brace to the last closing brace of the (fence-stripped) text:
\* an object J between text with no opening brace before it and no closing brace after
\* it is returned; a closing brace in the text after J, or an opening brace before it,
\* widens the span beyond J and yields the fallback; text that is not JSON and lacks
\* an opening or a closing brace yields the fallback.
C7_BraceScan ==
    Extracted =>
        /\ \A J \in SampleObjects :
               (reply.doc = json_dumps(J) /\ (Unfenced(reply) \/ OpenFenced(reply))) =>
                   /\ (~Contains(reply.pre, <<LBRACE>>) /\ ~Contains(reply.post, <<RBRACE>>))
                          => analysis = J
                   /\ Contains(reply.post, <<RBRACE>>) => analysis = Fallback
                   /\ (Unfenced(reply) /\ Contains(reply.pre, <<LBRACE>>))
                          => analysis = Fallback
        /\ (/\ Unfenced(reply)
            /\ ~json_loads(ai_text).ok
            /\ (~Contains(ai_text, <<LBRACE>>) \/ ~Contains(ai_text, <<RBRACE>>)))
               => analysis = Fallback

\* commentary with a closing brace after the object has been scanned and the fallback
\* returned
C7_Witness ==
    /\ Extracted
    /\ Unfenced(reply)
    /\ reply.pre = <<W("Note")>> /\ reply.post = <<RBRACE>>
    /\ reply.doc = json_dumps(Obj("scorecard" :> Obj("overallScore" :> Num(70))))
    /\ analysis = Fallback

\* C8: whenever the three attempts fail or the parsed value has no top-level scorecard
\* key, the response is the 200 answer carrying exactly the fallback and no error.
C8_FallbackWithoutError ==
    (Answered /\ reply # Absent /\ ~HasKey(extract_json(ai_text), "scorecard")) =>
        /\ response.statusCode = 200
        /\ response.body.analysis = Fallback

\* the input fields of a stored item
Inputs(it) == [k \in InputFields |-> it[k]]

\* C9: the store holds one item per successful invocation, each under its own
\* identifier, so no write replaced the item of an earlier invocation, identical
\* inputs included.
C9_NoDedup ==
    fn = "record" =>
        /\ Cardinality(DOMAIN table) = successes
        /\ \A id \in DOMAIN table : table[id]["id"] = id

\* two invocations with identical input fields have both succeeded
C9_Witness ==
    /\ successes = 2
    /\ \E a, b \in DOMAIN table : a # b /\ Inputs(table[a]) = Inputs(table[b])

\* C10: an invocation calls its collaborator at most once; a failed call is the only
\* call, the request ends with HTTP 500 (the record handler with the message "Error
\* storing analysis" and its item not stored), and the analysis handler calls the
\* model only with a prompt built.
C10_NoRetries ==
    /\ calls <= 1
    /\ call_failed =>
           /\ calls = 1 /\ pc = "done"
           /\ response.statusCode = 500
           /\ fn = "record" =>
                  /\ response.body.message = "Error storing analysis"
                  /\ item["id"] \notin DOMAIN table
           /\ fn = "analysis" => response.body.analysis = Fallback
    /\ (fn = "analysis" /\ calls > 0) => prompt # Absent
    /\ (fn = "record" /\ calls > 0) => item # Absent

\* a write to the store has failed
C10_Witness ==
    fn = "record" /\ call_failed /\ calls = 1 /\ response.statusCode = 500

\* the request has the currency and every required nested field, each one rendering
HasRequiredFields(d) ==
    /\ "currency" \in DOMAIN d.o
    /\ \A i \in 1..Len(RequiredFields) : RequiredError(d, RequiredFields[i]) = ""

\* the optional detail k is absent: the request has no property details, or has them
\* without k
MissingDetail(d, k) ==
    \/ "propertyDetails" \notin DOMAIN d.o
    \/ IsObj(d.o["propertyDetails"]) /\ k \notin DOMAIN d.o["propertyDetails"].o

Built == fn = "analysis" /\ pc \in {"prompted", "extracted", "done"}

\* C11: for a request that has every required field, whichever optional fields are absent
\* (an optional boolean, or the whole propertyDetails group holding it),
\* build_analysis_prompt does not raise and the prompt renders the placeholder
\* 'Not specified' for each missing boolean; a request lacking a required field fails,
\* and the caller gets status 500 with no model call made.
C11_OptionalFieldsDegrade ==
    Built =>
        IF HasRequiredFields(data)
        THEN /\ prompt # Absent
             /\ \A k \in YesNoDetails :
                    MissingDetail(data, k) =>
                        /\ k \in DOMAIN prompt.details
                        /\ prompt.details[k] = NotSpecified
        ELSE /\ pc = "done"
             /\ prompt = Absent
             /\ response.statusCode = 500
             /\ calls = 0

\* the parts of C11 the builder keeps: no raise on absent optional fields, the
\* placeholder for every boolean missing from a rendered details section, the default
\* of every missing location field, and status 500 for a missing required field
PromptDegrades ==
    Built =>
        IF HasRequiredFields(data)
        THEN /\ prompt # Absent
             /\ \A k \in YesNoDetails :
                    (MissingDetail(data, k) /\ prompt.details # <<>>) =>
                        prompt.details[k] = NotSpecified
             /\ \A k \in LocationFields \ {"country"} :
                    ("location" \notin DOMAIN data.o \/ k \notin DOMAIN data.o["location"].o)
                        => prompt.location[k] = NotSpecified
        ELSE /\ pc = "done"
             /\ prompt = Absent
             /\ response.statusCode = 500
             /\ calls = 0

\* the details section is rendered exactly when the request has non-empty details
DetailsOmitted ==
    (Built /\ prompt # Absent) =>
        (prompt.details = <<>>) = ~Truthy(Get(data, "propertyDetails", EmptyObj))

====
